---- MODULE Spec2Model ----
(***************************************************************************)
(* A model of sumgen (src/sumgen.go): the run of main() over a package     *)
(* directory (lock, parse, gap analysis, validate, artifact write), and    *)
(* the pure functions validate and scanDefs.                               *)
(*                                                                         *)
(* Text is a sequence of one-character strings.  A method signature is a   *)
(* sequence of tokens.  A file is a sequence of declarations.              *)
(***************************************************************************)
EXTENDS Integers, Sequences, FiniteSets, TLC

VARIABLES
  catalog,   \* the hand-written sources: type name -> member name -> member
  defs,      \* the sum definitions the doc comments of the sources hold
  srcVer,    \* number of edits made to the hand-written sources
  artifact,  \* <dir>_sumgen.go: [exists, content]
  lock,      \* owner of sumgen.lck, 0 when free
  pc,        \* position of each invocation of main()
  exitCode,  \* main's exitCode variable, per invocation
  g,         \* main's generator and locals, per invocation
  hist,      \* per invocation: what the run observed and did (history)
  prev,      \* the last run that held the lock: [valid, ver]
  runs,      \* invocations started so far
  vin,       \* validate: the argument
  vout,      \* validate: the result
  slines,    \* scanDefs: the lines of doc.Text()
  com,       \* scanDefs: the local com
  si,        \* scanDefs: the local i, at the head of the loop
  sdefs,     \* scanDefs: the local defs (each an rhs)
  sres,      \* scanDefs: "run", or how the call ended
  sout       \* scanDefs: the definition returned

vars == <<catalog, defs, srcVer, artifact, lock, pc, exitCode, g, hist, prev,
          runs, vin, vout, slines, com, si, sdefs, sres, sout>>
runVars == <<catalog, defs, srcVer, artifact, lock, pc, exitCode, g, hist,
             prev, runs>>
valVars == <<vin, vout>>
scanVars == <<slines, com, si, sdefs, sres, sout>>

\* ------------------------------------------------------------------ bounds
MaxRuns == 2
MaxEdits == 1
MaxRhs == 2
MaxMethods == 4
MaxLines == 2

\* two invocations of the tool in the same directory
Procs == {1, 2}

\* ------------------------------------------------------- sequence helpers
Range(s) == {s[i] : i \in 1..Len(s)}

NoDup(s) == \A i, j \in 1..Len(s) : i # j => s[i] # s[j]

SeqsUpTo(S, n) == UNION {[1..k -> S] : k \in 0..n}

RemoveAt(s, j) == SubSeq(s, 1, j - 1) \o SubSeq(s, j + 1, Len(s))

IsPrefix(p, s) == Len(p) <= Len(s) /\ SubSeq(s, 1, Len(p)) = p

\* ----------------------------------------------------- the package's types
TypeNames == {"A", "B"}
MemberNames == {"M", "N"}

\* signatures as token sequences: "()", "() int", "(<-chan int)"
s1 == <<"(", ")">>
s2 == <<"(", ")", "int">>
sc == <<"(", "<", "-", "chan", "int", ")">>

NoMember == [k |-> "none", sig |-> <<>>]
Field == [k |-> "field", sig |-> <<>>]
ValMethod(s) == [k |-> "val", sig |-> s]
PtrMethod(s) == [k |-> "ptr", sig |-> s]

\* the interfaces of the package and their methods, in method order
Interfaces ==
  [I1 |-> <<[Name |-> "M", sig |-> s1], [Name |-> "N", sig |-> s1]>>,
   I2 |-> <<[Name |-> "M", sig |-> s2]>>,
   I3 |-> <<[Name |-> "M", sig |-> sc]>>]

\* an entry of SumDef.Rhs: "A", "*A", ...
Var(n, b) == [stars |-> n, base |-> b]

\* a method the analysis found missing
Func(recv, name, sig) == [Recv |-> recv, Name |-> name, Sig |-> sig]

NoErr(ms) == [err |-> "none", methods |-> ms]
Err(e) == [err |-> e, methods |-> <<>>]

\* ---------------------------------------------------------- gap analysis
\* types.LookupFieldOrMethod(V, addressable, pkg, name): a method with a
\* pointer receiver is not found on a receiver that is not addressable
LookupFieldOrMethod(view, V, addressable, name) ==
  LET obj == view[V][name]
  IN  IF obj.k = "ptr" /\ ~addressable THEN NoMember ELSE obj

RECURSIVE mmLoop(_, _, _, _, _, _, _)
mmLoop(view, addressable, V, T, i, tname, methods) ==
  IF i > Len(T) THEN NoErr(methods)
  ELSE
    LET m == T[i]
        obj == LookupFieldOrMethod(view, V, addressable, m.Name)
    IN  IF obj.k = "field" THEN Err("field")
        ELSE IF obj.k # "none"
          THEN IF m.sig # obj.sig THEN Err("method")
               ELSE mmLoop(view, addressable, V, T, i + 1, tname, methods)
          ELSE
            LET tname2 == IF addressable
                            THEN Var(tname.stars + 1, tname.base)
                            ELSE tname
            IN  mmLoop(view, addressable, V, T, i + 1, tname2,
                       Append(methods,
                              Func(tname2, m.Name, <<"func">> \o m.sig)))

missingMethods(view, addressable, V, T) ==
  mmLoop(view, addressable, V, T, 1, Var(0, V), <<>>)

\* the (definition, rhs entry) pairs in the order the two loops visit them
RECURSIVE RhsPairs(_)
RhsPairs(ds) ==
  IF ds = <<>> THEN <<>>
  ELSE [j \in 1..Len(Head(ds).rhs) |->
          [iface |-> Head(ds).iface, rhstype |-> Head(ds).rhs[j]]]
       \o RhsPairs(Tail(ds))

RECURSIVE gmLoop(_, _, _, _)
gmLoop(view, pairs, i, methods) ==
  IF i > Len(pairs) THEN NoErr(methods)
  ELSE
    LET rhstype == pairs[i].rhstype
        addressable == rhstype.stars > 0
    IN  IF rhstype.base \notin DOMAIN view
          THEN Err("panic")   \* Scope().Lookup gives nil; .Type() on it
          ELSE
            LET mds == missingMethods(view, addressable, rhstype.base,
                                      Interfaces[pairs[i].iface])
            IN  IF mds.err # "none" THEN mds
                ELSE gmLoop(view, pairs, i + 1, methods \o mds.methods)

genMissingMethods(view, ds) == gmLoop(view, RhsPairs(ds), 1, <<>>)

\* ------------------------------------------------------------- validate
SameKey(a, b) == a.Name = b.Name /\ a.Recv = b.Recv

RECURSIVE valLoop(_, _, _)
valLoop(methods, i, j) ==
  IF i > Len(methods) THEN NoErr(methods)
  ELSE IF j > Len(methods) THEN valLoop(methods, i + 1, i + 2)
  ELSE IF SameKey(methods[i], methods[j])
    THEN IF methods[i].Sig = methods[j].Sig
           THEN valLoop(RemoveAt(methods, j), i, j + 1)
           ELSE Err("dup")
    ELSE valLoop(methods, i, j + 1)

validate(methods) == valLoop(methods, 1, 2)

\* ------------------------------------------------------------ rendering
\* a declaration of a file: the header with the package clause, or a stub
PkgDecl == [kind |-> "pkg", Recvar |-> <<>>, Recv |-> Var(0, ""),
            Name |-> "", Sig |-> <<>>]

\* html/template escapes the values it substitutes
htmlEscapeTok(t) ==
  CASE t = "<" -> "&lt;"
    [] t = ">" -> "&gt;"
    [] t = "&" -> "&amp;"
    [] OTHER -> t

htmlEscape(toks) == [i \in 1..Len(toks) |-> htmlEscapeTok(toks[i])]

RecvChars(recv) == [i \in 1..recv.stars |-> "*"] \o <<recv.base>>

Recvar(recv) ==
  LET cs == RecvChars(recv)
      r == IF cs[1] = "*" THEN cs[2] ELSE cs[1]
  IN  <<r>> \o (IF Len(cs) = 1 THEN cs ELSE <<>>)

writeHeader == <<PkgDecl>>

writeMethods(methods) ==
  [i \in 1..Len(methods) |->
     [kind |-> "stub", Recvar |-> htmlEscape(Recvar(methods[i].Recv)),
      Recv |-> methods[i].Recv, Name |-> methods[i].Name,
      Sig |-> htmlEscape(Tail(methods[i].Sig))]]

GoTokens == {"(", ")", "int", "<", "-", "chan"}

\* go/parser accepts the text as a file or as a list of declarations
Parses(buf) ==
  \A i \in 1..Len(buf) :
    /\ buf[i].kind = "pkg" => i = 1
    /\ Range(buf[i].Sig) \subseteq GoTokens

\* format.Source: the declarations keep their order; nil on a syntax error
formatSource(buf) == IF Parses(buf) THEN buf ELSE <<>>

\* --------------------------------------------- the package as go/types sees it
Stubs(content) == SelectSeq(content, LAMBDA d : d.kind = "stub")

\* parseInDir and types.Config.Check over the hand-written files and the
\* artifact, which is one of the package's files
TypeCheck(cat, art) ==
  art.exists =>
    LET c == art.content
    IN  /\ c # <<>>
        /\ c[1].kind = "pkg"
        /\ Parses(c)
        /\ \A i \in 2..Len(c) :
             /\ c[i].Recv.stars <= 1
             /\ c[i].Recv.base \in TypeNames
             /\ cat[c[i].Recv.base][c[i].Name].k = "none"
             /\ \A j \in 2..Len(c) :
                  (j # i /\ c[j].Recv.base = c[i].Recv.base)
                    => c[j].Name # c[i].Name

\* type information that leaves the artifact's file out of the package
View_handWritten(cat, art) == cat

View(cat, art) ==
  [t \in TypeNames |-> [n \in MemberNames |->
     LET ds == {d \in Range(IF art.exists THEN Stubs(art.content) ELSE <<>>) :
                  d.Recv.base = t /\ d.Name = n}
     IN  IF ds = {} THEN cat[t][n]
         ELSE LET d == CHOOSE x \in ds : TRUE
              IN  IF d.Recv.stars = 0 THEN ValMethod(d.Sig)
                  ELSE PtrMethod(d.Sig)]]

\* ------------------------------------------------------------ main()
Absent == [exists |-> FALSE, content |-> <<>>]

EmptyView == [t \in TypeNames |-> [n \in MemberNames |-> NoMember]]

G0 == [view |-> EmptyView, defs |-> <<>>, methods |-> <<>>,
       statNotExist |-> FALSE]

\* err: how the run ended; fault: the steps of the write that failed
H0 == [art0 |-> Absent, art1 |-> Absent, locked |-> FALSE, err |-> "none",
       analysed |-> FALSE, touched |-> FALSE, wrote |-> FALSE, fault |-> {},
       second |-> FALSE, ver |-> 0, intended |-> <<>>]

\* the failures of the operating system, as opposed to those the content
\* of the directory decides
EnvFaults == {"open", "truncate", "write", "close"}

\* a TryLock that never finds the lock file taken
TryLockOK_always == TRUE

\* lock.TryLock() succeeds when no live invocation owns sumgen.lck
TryLockOK == lock = 0

\* lines 447-463: Getwd, lockfile.New, TryLock, defer lock.Unlock()
TryLock(p) ==
  /\ pc[p] = "idle"
  /\ runs < MaxRuns
  /\ runs' = runs + 1
  /\ g' = [g EXCEPT ![p] = G0]
  /\ IF TryLockOK
       THEN /\ lock' = p
            /\ pc' = [pc EXCEPT ![p] = "parse"]
            /\ exitCode' = [exitCode EXCEPT ![p] = 0]
            /\ hist' = [hist EXCEPT ![p] =
                 [H0 EXCEPT !.art0 = artifact, !.art1 = artifact,
                            !.locked = TRUE]]
       ELSE /\ lock' = lock
            /\ pc' = [pc EXCEPT ![p] = "exit"]
            /\ exitCode' = [exitCode EXCEPT ![p] = 1]
            /\ hist' = [hist EXCEPT ![p] =
                 [H0 EXCEPT !.art0 = artifact, !.art1 = artifact,
                            !.err = "lock"]]
  /\ UNCHANGED <<catalog, defs, srcVer, artifact, prev>>
  /\ UNCHANGED <<valVars, scanVars>>

\* lines 465-476: parseAndTypeCheck, parseSumDefs
Parse(p) ==
  /\ pc[p] = "parse"
  /\ hist' = [hist EXCEPT ![p].ver = srcVer,
                          ![p].second = prev.valid /\ prev.ver = srcVer,
                          ![p].err = IF TypeCheck(catalog, artifact)
                                       THEN "none" ELSE "parse"]
  /\ IF TypeCheck(catalog, artifact)
       THEN /\ g' = [g EXCEPT ![p].view = View(catalog, artifact),
                              ![p].defs = defs]
            /\ pc' = [pc EXCEPT ![p] = "analyse"]
            /\ UNCHANGED exitCode
       ELSE /\ exitCode' = [exitCode EXCEPT ![p] = 1]
            /\ pc' = [pc EXCEPT ![p] = "unlock"]
            /\ UNCHANGED g
  /\ UNCHANGED <<catalog, defs, srcVer, artifact, lock, prev, runs>>
  /\ UNCHANGED <<valVars, scanVars>>

\* what main does with the outcome of genMissingMethods and validate:
\* the error it reports ("none": go on to the write) and the methods
Analysis(view, ds) ==
  LET r == genMissingMethods(view, ds)
  IN  IF r.err # "none" THEN r ELSE validate(r.methods)

\* the value fatalln leaves in exitCode; a panic unwinds past it
ExitCodeOf(err) == IF err \in {"none", "panic"} THEN 0 ELSE 1

\* fatalln without the return that follows it: the run goes on to the write
AfterAnalysis_noReturn(r) ==
  IF r.err = "panic" \/ (r.err = "none" /\ Len(r.methods) = 0)
    THEN "unlock" ELSE "open"

\* lines 479-489: return on an error and when nothing is missing
AfterAnalysis(r) ==
  IF r.err = "none" /\ Len(r.methods) # 0 THEN "open" ELSE "unlock"

\* lines 478-489
Analyse(p) ==
  /\ pc[p] = "analyse"
  /\ LET r == Analysis(g[p].view, g[p].defs)
     IN  /\ hist' = [hist EXCEPT ![p].analysed = TRUE, ![p].err = r.err]
         /\ exitCode' = [exitCode EXCEPT ![p] = ExitCodeOf(r.err)]
         /\ g' = [g EXCEPT ![p].methods = r.methods]
         /\ pc' = [pc EXCEPT ![p] = AfterAnalysis(r)]
  /\ UNCHANGED <<catalog, defs, srcVer, artifact, lock, prev, runs>>
  /\ UNCHANGED <<valVars, scanVars>>

\* lines 493-500: os.Stat, os.OpenFile(O_APPEND|O_CREATE|O_WRONLY)
Open(p) ==
  /\ pc[p] = "open"
  /\ \E openFails \in BOOLEAN :
       IF openFails
         THEN /\ exitCode' = [exitCode EXCEPT ![p] = 1]
              /\ pc' = [pc EXCEPT ![p] = "unlock"]
              /\ hist' = [hist EXCEPT ![p].fault = @ \cup {"open"},
                                      ![p].err = "open"]
              /\ UNCHANGED <<artifact, g>>
         ELSE /\ artifact' = [artifact EXCEPT !.exists = TRUE]
              /\ g' = [g EXCEPT ![p].statNotExist = ~artifact.exists]
              /\ pc' = [pc EXCEPT ![p] = "write"]
              /\ hist' = [hist EXCEPT ![p].touched = TRUE]
              /\ UNCHANGED exitCode
  /\ UNCHANGED <<catalog, defs, srcVer, lock, prev, runs>>
  /\ UNCHANGED <<valVars, scanVars>>

\* io.Copy(&buf, f) on a file opened O_WRONLY: the read fails, nothing is
\* copied and the error is only logged
ReadFile(content) == <<>>

\* lines 501-513: the buffer before gofmt (no import is needed: every
\* signature of the model names types of the package or the universe)
Rendered(statNotExist, content, methods) ==
  (IF statNotExist THEN writeHeader ELSE ReadFile(content))
    \o writeMethods(methods)

\* f.Write(pretty) writes it all, or fails having written a prefix; of
\* the prefixes the model keeps the empty one and the first declaration
WriteLens(n) == {0, n} \cup (IF n > 1 THEN {1} ELSE {})

\* lines 501-532
Write(p) ==
  /\ pc[p] = "write"
  /\ LET buf == Rendered(g[p].statNotExist, artifact.content, g[p].methods)
         pretty == formatSource(buf)
     IN  \E truncFails, closeFails \in BOOLEAN, k \in WriteLens(Len(pretty)) :
           LET kept == IF truncFails THEN artifact.content ELSE <<>>
               faults ==
                 (IF g[p].statNotExist THEN {} ELSE {"read"})
                   \cup (IF Parses(buf) THEN {} ELSE {"format"})
                   \cup (IF truncFails THEN {"truncate"} ELSE {})
                   \cup (IF k < Len(pretty) THEN {"write"} ELSE {})
                   \cup (IF closeFails THEN {"close"} ELSE {})
           IN  /\ artifact' = [artifact EXCEPT
                                 !.content = kept \o SubSeq(pretty, 1, k)]
               /\ exitCode' = [exitCode EXCEPT ![p] =
                                 IF closeFails THEN 1 ELSE @]
               /\ hist' = [hist EXCEPT
                    ![p].wrote = TRUE,
                    ![p].fault = @ \cup faults,
                    ![p].err = IF closeFails THEN "close" ELSE @,
                    ![p].intended =
                      (IF hist[p].art0.exists THEN hist[p].art0.content
                       ELSE writeHeader) \o writeMethods(g[p].methods)]
  /\ pc' = [pc EXCEPT ![p] = "unlock"]
  /\ UNCHANGED <<catalog, defs, srcVer, lock, g, prev, runs>>
  /\ UNCHANGED <<valVars, scanVars>>

\* the deferred lock.Unlock() (line 463), which runs on return and on panic
Unlock(p) ==
  /\ pc[p] = "unlock"
  /\ lock' = IF lock = p THEN 0 ELSE lock
  /\ pc' = [pc EXCEPT ![p] = "exit"]
  /\ hist' = [hist EXCEPT ![p].art1 = artifact]
  /\ prev' = [valid |-> hist[p].fault \cap EnvFaults = {},
              ver |-> hist[p].ver]
  /\ UNCHANGED <<catalog, defs, srcVer, artifact, exitCode, g, runs>>
  /\ UNCHANGED <<valVars, scanVars>>

\* the deferred os.Exit(exitCode) (lines 437-439), the last deferred call
Exit(p) ==
  /\ pc[p] = "exit"
  /\ pc' = [pc EXCEPT ![p] = "idle"]
  /\ exitCode' = [exitCode EXCEPT ![p] = 0]
  /\ g' = [g EXCEPT ![p] = G0]
  /\ hist' = [hist EXCEPT ![p] = H0]
  /\ UNCHANGED <<catalog, defs, srcVer, artifact, lock, prev, runs>>
  /\ UNCHANGED <<valVars, scanVars>>

\* ------------------------------------------------------- the developer
Variants == {Var(0, "A"), Var(1, "A"), Var(0, "B"), Var(0, "U")}

\* a variant is added to the first definition of the sources, between
\* invocations.  A run reads the sources once, in Parse, and nothing else
\* reads them, so an edit made during a run acts as one made just before
\* or just after it.
Edit ==
  /\ srcVer < MaxEdits
  /\ \A p \in Procs : pc[p] = "idle"
  /\ defs # <<>>
  /\ \E v \in Variants \ Range(defs[1].rhs) :
       defs' = [defs EXCEPT ![1].rhs = Append(@, v)]
  /\ srcVer' = srcVer + 1
  /\ UNCHANGED <<catalog, artifact, lock, pc, exitCode, g, hist, prev, runs>>
  /\ UNCHANGED <<valVars, scanVars>>

\* ------------------------------------------------------------- Init
Catalogs ==
  {[A |-> [M |-> am, N |-> NoMember], B |-> [M |-> NoMember, N |-> bn]] :
     am \in {NoMember, Field, ValMethod(s1), ValMethod(s2), PtrMethod(s1)},
     bn \in {NoMember}}

\* the result of scanDefs for an interface: union leaves no duplicate
RhsChoices(n) == {r \in SeqsUpTo(Variants, n) : NoDup(r)}

Def(i, r) == IF r = <<>> THEN <<>> ELSE <<[iface |-> i, rhs |-> r]>>

DefChoices ==
  {Def("I1", r1) \o Def(o[1], o[2]) :
     r1 \in RhsChoices(MaxRhs),
     o \in {<<"I2", <<>>>>, <<"I2", <<Var(0, "A")>>>>,
            <<"I3", <<Var(0, "B")>>>>}}

IdleVal == /\ vin = <<>>
           /\ vout = Err("idle")

IdleScan == /\ slines = <<>>
            /\ com = <<>>
            /\ si = 0
            /\ sdefs = <<>>
            /\ sres = "idle"
            /\ sout = <<>>

Init ==
  /\ catalog \in Catalogs
  /\ defs \in DefChoices
  /\ srcVer = 0
  /\ artifact = Absent
  /\ lock = 0
  /\ pc = [p \in Procs |-> "idle"]
  /\ exitCode = [p \in Procs |-> 0]
  /\ g = [p \in Procs |-> G0]
  /\ hist = [p \in Procs |-> H0]
  /\ prev = [valid |-> FALSE, ver |-> 0]
  /\ runs = 0
  /\ IdleVal
  /\ IdleScan

Next ==
  \/ \E p \in Procs : TryLock(p)
  \/ \E p \in Procs : Parse(p)
  \/ \E p \in Procs : Analyse(p)
  \/ \E p \in Procs : Open(p)
  \/ \E p \in Procs : Write(p)
  \/ \E p \in Procs : Unlock(p)
  \/ \E p \in Procs : Exit(p)
  \/ Edit

Spec == Init /\ [][Next]_vars

\* ------------------------------------------------------ validate, alone
IdleRun ==
  /\ catalog = EmptyView
  /\ defs = <<>>
  /\ srcVer = 0
  /\ artifact = Absent
  /\ lock = 0
  /\ pc = [p \in Procs |-> "idle"]
  /\ exitCode = [p \in Procs |-> 0]
  /\ g = [p \in Procs |-> G0]
  /\ hist = [p \in Procs |-> H0]
  /\ prev = [valid |-> FALSE, ver |-> 0]
  /\ runs = 0

\* the missing members three interfaces with a method M (and N) give for
\* the variants A and *A
FuncChoices ==
  {Func(r, n, <<"func">> \o s) :
     r \in {Var(0, "A"), Var(1, "A")}, n \in {"M", "N"}, s \in {s1, s2}}

ValInit ==
  /\ vin \in SeqsUpTo(FuncChoices, MaxMethods)
  /\ vout = Err("pending")
  /\ IdleRun
  /\ IdleScan

\* line 483: g.methods, err = validate(g.methods)
ValidateCall ==
  /\ vout.err = "pending"
  /\ vout' = validate(vin)
  /\ UNCHANGED <<vin, runVars, scanVars>>

SpecValidate == ValInit /\ [][ValidateCall]_vars

\* ------------------------------------------------------------ scanDefs
Chars(str) ==
  CASE str = "go:generate sumgen" ->
         <<"g", "o", ":", "g", "e", "n", "e", "r", "a", "t", "e", " ",
           "s", "u", "m", "g", "e", "n">>
    [] str = " S = A" -> <<" ", "S", " ", "=", " ", "A">>
    [] str = " S = *B | A" ->
         <<" ", "S", " ", "=", " ", "*", "B", " ", "|", " ", "A">>
    [] str = " S" -> <<" ", "S">>
    [] str = " S =" -> <<" ", "S", " ", "=">>
    [] str = " S = A |" -> <<" ", "S", " ", "=", " ", "A", " ", "|">>
    [] str = " S = *" -> <<" ", "S", " ", "=", " ", "*">>
    [] str = " T = B" -> <<" ", "T", " ", "=", " ", "B">>
    [] str = "x y" -> <<"x", " ", "y">>
    [] str = "" -> <<>>

prefix == Chars("go:generate sumgen")

\* ts.Name.Name: the interface the comment is attached to
TypeSpecName == <<"S">>

Letters == {"g", "o", "e", "n", "r", "a", "t", "s", "u", "m", "x", "y",
            "S", "T", "A", "B"}
Digits == {"0", "1", "2", "3", "4", "5", "6", "7", "8", "9"}

isLetter(ch) == ch \in Letters
isDigit(ch) == ch \in Digits
isSpace(ch) == ch \in {" ", "\t", "\n", "\r"}

\* offsets count from 0, as in the source
Slice(str, a, b) == SubSeq(str, a + 1, b)

\* utf8.DecodeRuneInString(s[i:]): RuneError at the end of the string
RuneAt(str, i) == IF i < Len(str) THEN str[i + 1] ELSE "RuneError"

justSpaces(str) == \A k \in 1..Len(str) : isSpace(str[k])

RECURSIVE identLoop(_, _)
identLoop(comment, i) ==
  IF i < Len(comment) /\ (isLetter(comment[i + 1]) \/ isDigit(comment[i + 1]))
    THEN identLoop(comment, i + 1)
    ELSE i

ident(comment, i) ==
  IF ~isLetter(RuneAt(comment, i)) THEN i ELSE identLoop(comment, i)

\* for unicode.IsSpace(r) { i += w; r, w = DecodeRuneInString(com[i:]) }
RECURSIVE skipSpaces(_, _)
skipSpaces(str, i) ==
  IF isSpace(RuneAt(str, i)) THEN skipSpaces(str, i + 1) ELSE i

TrimLeftSpace(str) == Slice(str, skipSpaces(str, 0), Len(str))

IndexAnyNewline(str) ==
  LET hits == {k \in 1..Len(str) : str[k] \in {"\r", "\n"}}
  IN  IF hits = {} THEN -1
      ELSE (CHOOSE k \in hits : \A h \in hits : k <= h) - 1

ScanState(res, c, i, ds) == [res |-> res, com |-> c, i |-> i, defs |-> ds]

\* the nextLine label, lines 264-270
nextLine(c, ds) ==
  LET i == IndexAnyNewline(c)
  IN  IF i >= 0 THEN ScanState("run", TrimLeftSpace(Slice(c, i, Len(c))), 0, ds)
      ELSE ScanState("run", c, i, ds)

\* the loop over the rhs, lines 216-249: "ok" with the rhs, "next" for
\* goto nextLine, "error" for the returned error, "panic" for com[i]
\* past the end of com
RECURSIVE rhsLoop(_, _, _)
rhsLoop(c, i0, rhs) ==
  LET offs == skipSpaces(c, i0)
  IN  IF offs >= Len(c) THEN [k |-> "panic", rhs |-> rhs]
      ELSE
        LET ptrRec == c[offs + 1] = "*"
            i == IF ptrRec THEN offs + 1 ELSE offs
            ei == ident(c, i)
        IN  IF ei = i
              THEN [k |-> IF ptrRec THEN "error" ELSE "next", rhs |-> rhs]
              ELSE
                LET rhs2 == Append(rhs, Slice(c, offs, ei))
                    j == skipSpaces(c, ei)
                IN  IF j < Len(c) /\ c[j + 1] = "|"
                      THEN rhsLoop(c, j + 1, rhs2)
                      ELSE [k |-> "ok", rhs |-> rhs2]

\* one pass of the loop body, lines 192-270, from com and defs
scanBody(c0, ds) ==
  IF ~IsPrefix(prefix, c0) THEN nextLine(c0, ds)
  ELSE
    LET c == TrimLeftSpace(Slice(c0, Len(prefix), Len(c0)))
        i1 == ident(c, 0)
        i2 == skipSpaces(c, i1)
    IN  IF i1 = 0 THEN nextLine(c, ds)
        ELSE IF Slice(c, 0, i1) # TypeSpecName THEN nextLine(c, ds)
        ELSE IF i2 >= Len(c) THEN ScanState("panic", c, i2, ds)
        ELSE IF c[i2 + 1] # "=" THEN nextLine(c, ds)
        ELSE
          LET r == rhsLoop(c, i2 + 1, <<>>)
          IN  CASE r.k = "panic" -> ScanState("panic", c, i2, ds)
                [] r.k = "error" -> ScanState("error", c, i2, ds)
                [] r.k = "next" -> nextLine(c, ds)
                [] r.k = "ok" ->
                     IF Len(r.rhs) = 0 THEN nextLine(c, ds)
                     ELSE nextLine(c, Append(ds, r.rhs))

\* union: the rhs of all definitions, without duplicates, first seen first
RECURSIVE dedup(_, _)
dedup(list, seen) ==
  IF list = <<>> THEN seen
  ELSE dedup(Tail(list),
             IF Head(list) \in Range(seen) THEN seen
             ELSE Append(seen, Head(list)))

RECURSIVE Flatten(_)
Flatten(ss) == IF ss = <<>> THEN <<>> ELSE Head(ss) \o Flatten(Tail(ss))

union(ds) == dedup(Flatten(ds), <<>>)

\* the lines a doc comment is made of; Text() ends every line with "\n"
\* and leaves no space at the end of a line
LineKinds == {" S = A", " S = *B | A", " S", " S =", " S = A |", " S = *",
              " T = B", "", "x y"}

LineText(kind) ==
  (IF kind = "x y" THEN Chars(kind)
   ELSE prefix \o Chars(kind)) \o <<"\n">>

RECURSIVE Text(_)
Text(ls) == IF ls = <<>> THEN <<>> ELSE LineText(Head(ls)) \o Text(Tail(ls))

ScanInit ==
  /\ slines \in SeqsUpTo(LineKinds, MaxLines) \ {<<>>}
  /\ com = Text(slines)
  /\ si = 0
  /\ sdefs = <<>>
  /\ sres = "run"
  /\ sout = <<>>
  /\ IdleRun
  /\ IdleVal

\* one iteration of the loop of line 191
ScanLine ==
  /\ sres = "run"
  /\ si >= 0
  /\ ~justSpaces(Slice(com, si, Len(com)))
  /\ LET st == scanBody(com, sdefs)
     IN  /\ sres' = st.res
         /\ com' = st.com
         /\ si' = st.i
         /\ sdefs' = st.defs
  /\ UNCHANGED <<slines, sout, runVars, valVars>>

\* com[i:] with i = -1, at the head of the loop
ScanPanic ==
  /\ sres = "run"
  /\ si < 0
  /\ sres' = "panic"
  /\ UNCHANGED <<slines, com, si, sdefs, sout, runVars, valVars>>

\* line 272: return union(defs), nil
ScanReturn ==
  /\ sres = "run"
  /\ si >= 0
  /\ justSpaces(Slice(com, si, Len(com)))
  /\ sres' = "ok"
  /\ sout' = union(sdefs)
  /\ UNCHANGED <<slines, com, si, sdefs, runVars, valVars>>

ScanNext == ScanLine \/ ScanPanic \/ ScanReturn

SpecScan == ScanInit /\ [][ScanNext]_vars

\* ------------------------------------------------------------ the claims
Conflicts == {"field", "method", "dup"}

Locked == {"parse", "analyse", "open", "write", "unlock"}

WellFormed(art) == art.exists /\ art.content # <<>> /\ art.content[1].kind = "pkg"

\* C1: a run in which genMissingMethods or validate reports a conflict
\* exits nonzero and has neither created nor modified the artifact,
\* whether or not the artifact existed before the run.
C1_ConflictBeforeWrite ==
  \A p \in Procs :
    (pc[p] \in {"unlock", "exit"} /\ hist[p].err \in Conflicts) =>
      /\ exitCode[p] # 0
      /\ ~hist[p].touched /\ ~hist[p].wrote
      /\ hist[p].art1 = hist[p].art0
      /\ pc[p] = "unlock" => artifact = hist[p].art0

C1_Witness ==
  \E p \in Procs :
    /\ pc[p] = "exit"
    /\ hist[p].err \in Conflicts
    /\ WellFormed(hist[p].art0)
    /\ Stubs(hist[p].art0.content) # <<>>

\* C2: when the artifact exists and a run finds a new missing member, the
\* artifact after the run holds everything it held before the run, and
\* the new stubs.
C2_ReadMergeRewrite ==
  \A p \in Procs :
    (/\ pc[p] = "exit"
     /\ hist[p].wrote
     /\ hist[p].fault \cap EnvFaults = {}
     /\ WellFormed(hist[p].art0)
     /\ Stubs(hist[p].art0.content) # <<>>) =>
      /\ Range(hist[p].art0.content) \subseteq Range(hist[p].art1.content)
      /\ Range(writeMethods(g[p].methods))
           \subseteq Range(hist[p].art1.content)

\* C3: when a step after the analysis fails, the artifact is as it was
\* before the run or holds the complete new content.
C3_NoCorruptArtifact ==
  \A p \in Procs :
    (pc[p] = "exit" /\ hist[p].fault # {}) =>
      \/ hist[p].art1 = hist[p].art0
      \/ hist[p].art1 = [exists |-> TRUE, content |-> hist[p].intended]

\* C4: a run that follows a run over the same sources (which none of the
\* operating system's failures disturbed) leaves the artifact as it found it.
C4_Idempotent ==
  \A p \in Procs :
    (pc[p] \in {"unlock", "exit"} /\ hist[p].second) =>
      /\ ~hist[p].wrote /\ ~hist[p].touched
      /\ hist[p].art1 = hist[p].art0
      /\ pc[p] = "unlock" => artifact = hist[p].art0

C4_Witness ==
  \E p \in Procs :
    /\ pc[p] = "exit"
    /\ hist[p].second
    /\ hist[p].err = "none"
    /\ exitCode[p] = 0
    /\ WellFormed(hist[p].art0)
    /\ Len(Stubs(hist[p].art0.content)) > 1

\* C5: validate returns an error or a list in which no two entries share
\* (receiver, name); every key of the argument is kept exactly once; two
\* entries of the argument with one key and different signatures always
\* give the error.
C5_KeyUnique ==
  vout.err \notin {"idle", "pending"} =>
    /\ vout.err = "none" =>
         /\ \A i, j \in 1..Len(vout.methods) :
              i # j => ~SameKey(vout.methods[i], vout.methods[j])
         /\ \A m \in Range(vin) :
              Cardinality({i \in 1..Len(vout.methods) :
                             SameKey(vout.methods[i], m)}) = 1
    /\ (\E a, b \in Range(vin) : SameKey(a, b) /\ a.Sig # b.Sig)
         => vout.err = "dup"

\* C6: every missing member the analysis emits has as receiver the rhs
\* entry it was emitted for: "T" for T, "*T" for *T.
C6_ReceiverDescriptor ==
  \A p \in Procs :
    \A i \in 1..Len(g[p].methods) :
      \E d \in Range(g[p].defs) :
        /\ g[p].methods[i].Recv \in Range(d.rhs)
        /\ \E m \in Range(Interfaces[d.iface]) :
             m.Name = g[p].methods[i].Name

\* C7: a run whose definitions list a variant that is no type of the
\* package exits nonzero and leaves the artifact alone.
C7_UnresolvedVariantFatal ==
  \A p \in Procs :
    (/\ pc[p] = "exit"
     /\ hist[p].analysed
     /\ \E d \in Range(g[p].defs) : \E v \in Range(d.rhs) :
          v.base \notin TypeNames) =>
      /\ exitCode[p] # 0
      /\ hist[p].art1 = hist[p].art0

\* C8: an invocation that fails to take the lock exits nonzero having
\* analysed and touched nothing; one that took it holds it exactly while
\* it parses, analyses and writes, and has released it before it exits;
\* no two invocations are in that region together.
C8_LockDiscipline ==
  /\ \A p, q \in Procs :
       (p # q /\ pc[p] \in Locked) => pc[q] \notin Locked
  /\ \A p \in Procs :
       /\ (pc[p] \in Locked) <=> (lock = p)
       /\ (pc[p] = "exit" /\ hist[p].err = "lock") =>
            /\ exitCode[p] # 0
            /\ ~hist[p].analysed /\ ~hist[p].touched /\ ~hist[p].wrote
            /\ g[p] = G0
       /\ hist[p].touched => hist[p].locked

C8_Witness ==
  \E p, q \in Procs :
    /\ pc[p] = "write"
    /\ pc[q] = "exit"
    /\ hist[q].err = "lock"

\* the definitions with the variants of one of them in another order
PermsOf(r) == {q \in [1..Len(r) -> Range(r)] : NoDup(q)}

Reordered(ds) ==
  UNION {{[ds EXCEPT ![i].rhs = q] : q \in PermsOf(ds[i].rhs)} :
           i \in 1..Len(ds)}

\* the content a run without failures of the operating system leaves
RunResult(view, ds, art0) ==
  LET r == Analysis(view, ds)
  IN  IF r.err # "none" \/ Len(r.methods) = 0 THEN art0.content
      ELSE formatSource(Rendered(~art0.exists, art0.content, r.methods))

\* C9: every order of the variants in a definition gives the same stubs
\* in the same order in the artifact.
C9_OrderIndependent ==
  \A p \in Procs :
    (/\ pc[p] = "exit"
     /\ hist[p].wrote
     /\ hist[p].fault \cap EnvFaults = {}) =>
      \A ds \in Reordered(g[p].defs) :
        Stubs(RunResult(g[p].view, ds, hist[p].art0))
          = Stubs(hist[p].art1.content)

Incomplete == {" S", " S =", " S = A |"}

VariantsOf(kind) ==
  CASE kind = " S = A" -> {<<"A">>}
    [] kind = " S = *B | A" -> {<<"*", "B">>, <<"A">>}
    [] OTHER -> {}

\* C10: a directive line without its "=", or without a variant after "="
\* or "|", is dropped without an error or a crash, also when the comment
\* ends there; every well-formed directive after it is in the definition
\* returned; a line that ends the comment incomplete adds no variant.
C10_AbandonAndResume ==
  (/\ sres \notin {"idle", "run"}
   /\ \E i \in 1..Len(slines) : slines[i] \in Incomplete) =>
    /\ sres = "ok"
    /\ \A i, j \in 1..Len(slines) :
         (i < j /\ slines[i] \in Incomplete)
           => VariantsOf(slines[j]) \subseteq Range(sout)
    /\ (\A i \in 1..Len(slines) - 1 : slines[i] \notin Incomplete)
         => Range(sout) \subseteq
              UNION {VariantsOf(slines[i]) : i \in 1..Len(slines)}
====
